---- MODULE Spec2Model ----
(***************************************************************************)
(* go-quantize: median-cut palette generation.                             *)
(*                                                                         *)
(* The model follows the current quantizer (bucketPool.getBucket,          *)
(* bucketize, palettize, quantizeSlice, buildBucketMultiple, Quantize,     *)
(* QuantizeMultiple) and bucket.go (gt, partition, mean, span).            *)
(*                                                                         *)
(* A call of Quantize/QuantizeMultiple is a small process: it computes the *)
(* table size, takes a table from the shared pool (mutex section, then     *)
(* sync.Pool.Get), scans its pixels one by one, compacts the table, runs   *)
(* quantizeSlice (bucketize one loop iteration per step, then palettize)   *)
(* and finally runs its deferred Put.  Images are of the kinds whose       *)
(* colorAt yields the pixel's color.RGBA (not *image.YCbCr).               *)
(***************************************************************************)
EXTENDS Integers, Sequences, FiniteSets, TLC

(***************************************************************************)
(* Bounds of the model.                                                    *)
(***************************************************************************)
NumCalls == 2        \* concurrent Quantize calls sharing bpool
MaxWidth == 3        \* widest image (a row of pixels) of the general inputs
MaxSpare == 3        \* largest cap(p) - len(p) of a caller's palette
MaxImages == 2       \* longest image list given to QuantizeMultiple

MaxSide == 101    \* widest bounding box of the images that move the pool's mark

Calls == 1..NumCalls

(***************************************************************************)
(* Numbers.  TLC's integers are 32-bit signed, so a weight is kept as the  *)
(* pair <<high part, low 16 bits>>.  A uint32 wraps its high part at 2^16; *)
(* a uint64 sum (and the exact sum of the pixel weights) does not wrap for *)
(* the few pixels scanned here.                                            *)
(***************************************************************************)
Limb == 65536
MaxInt32 == 2147483647

Zero == <<0, 0>>
One == <<0, 1>>
Half32 == <<32768, 0>>                       \* 2^31

Norm(hi, lo) == <<hi + (lo \div Limb), lo % Limb>>
AddN(a, b) == Norm(a[1] + b[1], a[2] + b[2])            \* exact a + b
MulN(a, k) == Norm(a[1] * k, a[2] * k)                  \* exact a * k, k small
LessN(a, b) == a[1] < b[1] \/ (a[1] = b[1] /\ a[2] < b[2])
HalfN(a) == <<a[1] \div 2, ((a[1] % 2) * Limb + a[2]) \div 2>>   \* a / 2
Wrap32(a) == <<a[1] % Limb, a[2]>>                      \* a mod 2^32
Add32(a, b) == Wrap32(AddN(a, b))                       \* uint32 a + b
FromInt(n) == Norm(0, n)

(***************************************************************************)
(* color.RGBA and colorPriority (bucket.go).                               *)
(***************************************************************************)
RGBA(r, g, b, a) == [R |-> r, G |-> g, B |-> b, A |-> a]

Black == RGBA(0, 0, 0, 255)
White == RGBA(255, 255, 255, 255)
Clear == RGBA(0, 0, 0, 0)
Smoke == RGBA(0, 0, 0, 128)
Red == RGBA(255, 0, 0, 255)
Olive == RGBA(128, 128, 0, 255)

Transparent == RGBA(0, 0, 0, 0)

colorPriority(p, c) == [p |-> p, c |-> c]

ZeroPriority == colorPriority(Zero, RGBA(0, 0, 0, 0))

Mode == "Mode"
Mean == "Mean"

(***************************************************************************)
(* Slices.  A colorBucket value is a window [0, len) on a backing array of *)
(* the heap; arr = 0 is a slice without storage (nil, colorBucket{}).      *)
(***************************************************************************)
Slice(arr, len) == [arr |-> arr, len |-> len]

NoSlice == Slice(0, 0)

\* What Pool.Get returns when it has nothing to hand out.
Nil == Slice(-1, 0)

(***************************************************************************)
(* Images: a rectangle of bounds and the name of its gamut, the colours    *)
(* colorAt can return for its pixels (the value of a pixel is drawn when   *)
(* the scan reads it).                                                     *)
(***************************************************************************)
MainColours == {Black, Clear, Smoke, Red, Olive}
SquareColours == {Black, White, Clear}
PairColours == {Black, White}
PlainColours == {Black}

\* The blues whose table index is a slot that the probe loop visits from
\* slot 0 in a table of 18 slots, and one more blue of index 18.
ProbeColours ==
    {RGBA(0, 0, ((k * (k + 3)) \div 2) % 18, 255) : k \in 0..35}
    \cup {RGBA(0, 0, 18, 255)}

Gamut(name) ==
    CASE name = "main" -> MainColours
      [] name = "square" -> SquareColours
      [] name = "pair" -> PairColours
      [] name = "plain" -> PlainColours
      [] name = "probe" -> ProbeColours

Image(x0, y0, x1, y1, gamut) ==
    [minX |-> x0, minY |-> y0, maxX |-> x1, maxY |-> y1, gamut |-> gamut]

SetMin(S) == CHOOSE m \in S : \A n \in S : m <= n
SetMax(S) == CHOOSE m \in S : \A n \in S : m >= n

Width(m) == IF m.maxX > m.minX THEN m.maxX - m.minX ELSE 0
Height(m) == IF m.maxY > m.minY THEN m.maxY - m.minY ELSE 0
Area(m) == Width(m) * Height(m)

\* The pixels of one image in scan order (y outer, x inner), as <<x, y>>.
PixelsOf(m) ==
    [n \in 1..Area(m) |->
        <<m.minX + ((n - 1) % Width(m)), m.minY + ((n - 1) \div Width(m))>>]

\* The pixels of all images in scan order, as <<image index, x, y>>.
RECURSIVE ScanOrderFrom(_, _)
ScanOrderFrom(ms, i) ==
    IF i > Len(ms) THEN <<>>
    ELSE [n \in 1..Area(ms[i]) |->
             <<i, PixelsOf(ms[i])[n][1], PixelsOf(ms[i])[n][2]>>]
         \o ScanOrderFrom(ms, i + 1)

ScanOrder(ms) == ScanOrderFrom(ms, 1)

\* q.Weighting: nil, or one of three weighting functions of (m, x, y).
Weighting(fn, x, y) ==
    CASE fn = "nil" -> One
      [] fn = "zero" -> Zero
      [] fn = "ramp" -> FromInt(x + y)
      [] fn = "half" -> Half32

(***************************************************************************)
(* buildBucketMultiple: the table size and the probe loop.                 *)
(***************************************************************************)
TableSize(ms) ==
    LET leastX == SetMin({MaxInt32} \cup {ms[i].minX : i \in 1..Len(ms)})
        greatestX == SetMax({0} \cup {ms[i].maxX : i \in 1..Len(ms)})
        leastY == SetMin({MaxInt32} \cup {ms[i].minY : i \in 1..Len(ms)})
        greatestY == SetMax({0} \cup {ms[i].maxY : i \in 1..Len(ms)})
    IN (greatestX - leastX) * (greatestY - leastY) * 2

ColorIndex(c) == c.R * 65536 + c.G * 256 + c.B

\* The slot (0-based) the loop looks at in its k-th round, k = 0, 1, ...:
\* index grows by 1 + i in round i = 1, 2, ..., that is by 2, 3, 4, ...
ProbeSlot(c, k, size) == (ColorIndex(c) + (k * (k + 3)) \div 2) % size

\* A slot ends the loop if it is unused or already holds this colour.
SlotEnds(e, c) == e.p = Zero \/ e.c = c

\* The rounds at which the loop would stop.  The slot sequence has period
\* 2 * size, so no stop in 0 .. 2*size-1 means the loop never stops.
ProbeStops(tab, c, size) ==
    {k \in 0..(2 * size - 1) : SlotEnds(tab[ProbeSlot(c, k, size) + 1], c)}

\* The table after one pixel of colour c and weight priority /= 0.
Accumulate(tab, c, priority, size) ==
    LET k == SetMin(ProbeStops(tab, c, size))
        s == ProbeSlot(c, k, size) + 1
    IN [tab EXCEPT ![s] = colorPriority(Add32(tab[s].p, priority), c)]

\* The compaction: the used entries of the table, in table order.
Dense(tab) == SelectSeq(tab, LAMBDA e : e.p # Zero)

(***************************************************************************)
(* bucketPool.getBucket                                                    *)
(***************************************************************************)
\* A mark that decays above c or is raised below c, and is not raised to c
\* after a decay.
MarkDecaysUnchecked(mark, c) ==
    IF mark > c THEN (mark * 99) \div 100 ELSE IF mark < c THEN c ELSE mark

\* The mutex section: the mark decays by 1% above c and is raised to c.
MarkAfter(mark, c) ==
    LET m == IF mark > c THEN (mark * 99) \div 100 ELSE mark
    IN IF m < c THEN c ELSE m

Zeroes(n) == [i \in 1..n |-> ZeroPriority]

\* A reused array handed out without the clearing loop.
NotCleared(array, c) == array

\* slice = slice[0:c]; for i := range slice { slice[i] = colorPriority{} }
Cleared(array, c) == [i \in 1..Len(array) |-> IF i <= c THEN ZeroPriority ELSE array[i]]

(***************************************************************************)
(* bucket.go: gt, span, partition, mean.  A bucket cb is a sequence of     *)
(* colorPriority; the code's 0-based position i is cb[i + 1].              *)
(***************************************************************************)
red == "red"
green == "green"
blue == "blue"

Channel(c, axis) ==
    CASE axis = red -> c.R
      [] axis = green -> c.G
      [] OTHER -> c.B

gt(c, other, axis) == c > Channel(other, axis)

RECURSIVE SumWeights(_)
SumWeights(cb) ==
    IF cb = <<>> THEN Zero ELSE AddN(cb[1].p, SumWeights(Tail(cb)))

\* constraint.span(): max - min in uint8, from min = 255 and max = 0.
ConstraintSpan(cb, axis) ==
    LET vs == {Channel(cb[i].c, axis) : i \in 1..Len(cb)}
    IN (SetMax({0} \cup vs) - SetMin({255} \cup vs)) % 256

\* A selection that keeps the earlier channel when ranges are equal.
SpanAxisEarlierOnTie(cb) ==
    LET R == ConstraintSpan(cb, red)
        G == ConstraintSpan(cb, green)
        B == ConstraintSpan(cb, blue)
    IN IF R >= G /\ R >= B THEN red
       ELSE IF G >= B THEN green
       ELSE blue

\* The axis span() selects.
SpanAxis(cb) ==
    LET R == ConstraintSpan(cb, red)
        G == ConstraintSpan(cb, green)
        B == ConstraintSpan(cb, blue)
    IN IF R > G /\ R > B THEN red
       ELSE IF G > B THEN green
       ELSE blue

\* constraint.vals on the selected axis: the weight at channel value v.
AxisVals(cb, axis, v) ==
    SumWeights(SelectSeq(cb, LAMBDA e : Channel(e.c, axis) = v))

\* counted when the counting loop of span() reaches index i: the weight at
\* the channel values below i.
Counted(cb, axis, i) ==
    SumWeights(SelectSeq(cb, LAMBDA e : Channel(e.c, axis) < i))

\* The break condition of the counting loop at index i.
CountBreaks(cb, axis, i) ==
    LET p == SumWeights(cb)
    IN \/ LessN(HalfN(p), Counted(cb, axis, i))
       \/ AddN(Counted(cb, axis, i), AxisVals(cb, axis, i)) = p

\* The index at which the counting loop breaks (255 if it never does).
\* counted only grows, so the condition holds from the first such index on,
\* and the first one is the one whose predecessor fails it.
CountLoop(cb, axis) ==
    IF ~CountBreaks(cb, axis, 255) THEN 255
    ELSE CHOOSE i \in 0..255 :
            CountBreaks(cb, axis, i) /\ (i = 0 \/ ~CountBreaks(cb, axis, i - 1))

\* span(): the threshold value (called mean in partition) and the axis.
span(cb) ==
    [mean |-> CountLoop(cb, SpanAxis(cb)), axis |-> SpanAxis(cb)]

\* A swap that copies one entry over the other instead of exchanging them.
SwapCopies(cb, i, j) == [cb EXCEPT ![i] = cb[j]]

Swap(cb, i, j) == [cb EXCEPT ![i] = cb[j], ![j] = cb[i]]

\* The loop of partition() from 0-based (left, right).  An index outside
\* the bucket is a run-time panic.
RECURSIVE PartitionLoop(_, _, _, _, _)
PartitionLoop(cb, left, right, mean, axis) ==
    IF ~(left < right) THEN [panic |-> FALSE, cb |-> cb, left |-> left]
    ELSE LET ls == {l \in left..(Len(cb) - 1) : ~gt(mean, cb[l + 1].c, axis)}
             rs == {r \in 0..right : gt(mean, cb[r + 1].c, axis)}
         IN IF ls = {} \/ rs = {}
            THEN [panic |-> TRUE, cb |-> cb, left |-> left]
            ELSE PartitionLoop(Swap(cb, SetMin(ls) + 1, SetMax(rs) + 1),
                               SetMin(ls), SetMax(rs), mean, axis)

\* partition(): the permuted bucket and the split position (cb[:left],
\* cb[left:]), or a panic.
partition(cb) ==
    LET s == span(cb)
    IN PartitionLoop(cb, 0, Len(cb) - 1, s.mean, s.axis)

RECURSIVE SumChannel(_, _)
SumChannel(cb, axis) ==
    IF cb = <<>> THEN Zero
    ELSE AddN(MulN(cb[1].p, Channel(cb[1].c, axis)), SumChannel(Tail(cb), axis))

\* A division that rounds up.
DivNRoundsUp(r, p) ==
    CHOOSE q \in 0..255 : ~LessN(MulN(p, q), r) /\ (q = 0 \/ LessN(MulN(p, q - 1), r))

\* uint8(r / p) for r <= 255 * p, p /= 0.
DivN(r, p) ==
    CHOOSE q \in 0..255 : ~LessN(r, MulN(p, q)) /\ LessN(r, MulN(p, q + 1))

\* mean(): the weighted mean of each channel; p = 0 is a division by zero.
mean(cb) ==
    LET p == SumWeights(cb)
    IN RGBA(DivN(SumChannel(cb, red), p), DivN(SumChannel(cb, green), p),
            DivN(SumChannel(cb, blue), p), 255)

(***************************************************************************)
(* palettize and quantizeSlice.                                            *)
(***************************************************************************)
\* A scan that replaces the best member by a later one of the same weight.
RECURSIVE BestFromLast(_, _)
BestFromLast(cb, best) ==
    IF cb = <<>> THEN best
    ELSE BestFromLast(Tail(cb), IF LessN(cb[1].p, best.p) THEN best ELSE cb[1])

\* Mode: the scan for the best member, from the zero colorPriority.
RECURSIVE BestFrom(_, _)
BestFrom(cb, best) ==
    IF cb = <<>> THEN best
    ELSE BestFrom(Tail(cb), IF LessN(best.p, cb[1].p) THEN cb[1] ELSE best)

\* The colour palettize appends for one bucket.
Representative(cb, aggregation) ==
    IF aggregation = Mean THEN mean(cb) ELSE BestFrom(cb, ZeroPriority).c

\* The members of a bucket <<lo, hi>> (the code's colors[lo:hi]).
Members(colors, b) == SubSeq(colors, b[1] + 1, b[2])

palettize(p, colors, buckets, aggregation) ==
    p \o [i \in 1..Len(buckets) |->
            Representative(Members(colors, buckets[i]), aggregation)]

\* The addTransparent that quantizeSlice ends up with.
\* A reservation that does not look for an alpha-0 entry in the prefix.
AddsTransparentIgnoresPrefix(q, p) == q.AddTransparent

AddsTransparent(q, p) ==
    q.AddTransparent /\ ~(\E i \in 1..Len(p) : p[i].A = 0)

\* The bucket count quantizeSlice asks of bucketize.
NumColors(q, p, pcap) ==
    IF AddsTransparent(q, p) THEN pcap - Len(p) - 1 ELSE pcap - Len(p)

\* A queue that takes new buckets at its head.
EnqueueAtHead(queue, new) == new \o queue

\* buckets = append(buckets, ...): new buckets go to the tail of the queue.
Enqueue(queue, new) == queue \o new

\* One iteration of the loop of bucketize on the queue and the colours:
\* the new queue and colours, or a panic in partition.
BucketizeIteration(buckets, colors) ==
    LET bucket == Head(buckets)
        rest == Tail(buckets)
        lo == bucket[1]
        hi == bucket[2]
        part == partition(Members(colors, bucket))
    IN IF hi - lo < 2
       THEN [panic |-> FALSE, colors |-> colors, buckets |-> Enqueue(rest, <<bucket>>)]
       ELSE IF hi - lo = 2
       THEN [panic |-> FALSE, colors |-> colors,
             buckets |-> Enqueue(rest, << <<lo, lo + 1>>, <<lo + 1, hi>> >>)]
       ELSE [panic |-> part.panic,
             colors |-> [i \in 1..Len(colors) |->
                            IF i > lo /\ i <= hi THEN part.cb[i - lo] ELSE colors[i]],
             buckets |-> IF part.panic THEN rest
                         ELSE Enqueue(rest, << <<lo, lo + part.left>>,
                                               <<lo + part.left, hi>> >>)]

(***************************************************************************)
(* State.                                                                  *)
(*   maxCap  bpool.maxCap, the pool's high-water mark                      *)
(*   pool    the slices held by bpool's sync.Pool                          *)
(*   heap    the backing arrays allocated so far (heap[id], full capacity) *)
(*   call    the Quantize/QuantizeMultiple calls: arguments, locals, pc    *)
(*   seen    per call, history of the scan (not program state): weight,    *)
(*           the exact weight scanned so far for each colour, and colors,  *)
(*           the dense list as buildBucketMultiple returned it             *)
(***************************************************************************)
VARIABLES maxCap, pool, heap, call, seen

vars == <<maxCap, pool, heap, call, seen>>

\* A call about to run with palette p (capacity pcap), quantizer q, images ms.
NewCall(p, pcap, q, ms) ==
    [pc |-> "build", p |-> p, pcap |-> pcap, q |-> q, ms |-> ms,
     size |-> 0, maxCap |-> 0, sparseBucket |-> NoSlice, n |-> 0,
     bucket |-> NoSlice, numColors |-> 0, addTransparent |-> FALSE,
     buckets |-> <<>>, out |-> <<>>]

\* A call that is never made.
NoCall ==
    [NewCall(<<>>, 0, [Aggregation |-> Mode, Weighting |-> "nil",
                       AddTransparent |-> FALSE], <<>>)
        EXCEPT !.pc = "off"]

Set(k, r) == call' = [call EXCEPT ![k] = r]

\* The colours of call k's dense list, colors in quantizeSlice.
Colors(k) ==
    IF call[k].bucket.arr = 0 THEN <<>>
    ELSE SubSeq(heap[call[k].bucket.arr], 1, call[k].bucket.len)

\* The table of call k, sparseBucket.
Table(k) ==
    IF call[k].sparseBucket.arr = 0 THEN <<>>
    ELSE SubSeq(heap[call[k].sparseBucket.arr], 1, call[k].sparseBucket.len)

Cap(s) == IF s.arr = 0 THEN 0 ELSE Len(heap[s.arr])

\* Lines 150-176 of buildBucketMultiple: no image, or the table size.
Build(k) ==
    /\ call[k].pc = "build"
    /\ IF Len(call[k].ms) < 1
       THEN Set(k, [call[k] EXCEPT !.pc = "quantizeSlice", !.bucket = NoSlice])
       ELSE Set(k, [call[k] EXCEPT !.pc = "lock", !.size = TableSize(call[k].ms)])
    /\ UNCHANGED <<maxCap, pool, heap, seen>>

\* getBucket, the mutex section.
GetBucketLock(k) ==
    /\ call[k].pc = "lock"
    /\ maxCap' = MarkAfter(maxCap, call[k].size)
    /\ Set(k, [call[k] EXCEPT !.pc = "get",
                  !.maxCap = MarkAfter(maxCap, call[k].size)])
    /\ UNCHANGED <<pool, heap, seen>>

\* What Pool.Get may hand out: a held slice, or nil.
PoolGet == pool \cup {Nil}

\* A Get that hands a slice out and leaves it in the pool.
PoolKeeps(val) == pool

\* The pool once val was handed out.
PoolWithout(val) == pool \ {val}

\* getBucket after the mutex: Pool.Get, then a new array or the cleared one.
GetBucketGet(k) ==
    /\ call[k].pc = "get"
    /\ \E val \in PoolGet :
        LET c == call[k].size
        IN /\ pool' = PoolWithout(val)
           /\ IF val = Nil \/ Cap(val) < c
              THEN /\ heap' = Append(heap, Zeroes(call[k].maxCap))
                   /\ Set(k, [call[k] EXCEPT !.pc = "scan",
                                 !.sparseBucket = Slice(Len(heap) + 1, c)])
              ELSE /\ heap' = IF val.arr = 0 THEN heap
                              ELSE [heap EXCEPT ![val.arr] = Cleared(@, c)]
                   /\ Set(k, [call[k] EXCEPT !.pc = "scan",
                                 !.sparseBucket = Slice(val.arr, c)])
    /\ UNCHANGED <<maxCap, seen>>

\* The scanned weights after a pixel of colour c and weight w.
Note(s, c, w) ==
    IF c \in DOMAIN s THEN [s EXCEPT ![c] = AddN(@, w)] ELSE s @@ (c :> w)

NothingSeen == [weight |-> <<>>, colors |-> <<>>]

\* One pixel of the scan: its weight, and for a non-zero weight its colour
\* and the probe loop.  A probe loop that never stops hangs the call.
ScanPixel(k) ==
    /\ call[k].pc = "scan"
    /\ call[k].n < Len(ScanOrder(call[k].ms))
    /\ LET px == ScanOrder(call[k].ms)[call[k].n + 1]
           priority == Weighting(call[k].q.Weighting, px[2], px[3])
           size == call[k].size
           arr == call[k].sparseBucket.arr
       IN IF priority = Zero
          THEN /\ Set(k, [call[k] EXCEPT !.n = @ + 1])
               /\ UNCHANGED <<heap, seen>>
          ELSE \E c \in Gamut(call[k].ms[px[1]].gamut) :
                  IF ProbeStops(Table(k), c, size) = {}
                  THEN /\ Set(k, [call[k] EXCEPT !.pc = "probing"])
                       /\ UNCHANGED <<heap, seen>>
                  ELSE /\ heap' = [heap EXCEPT ![arr] =
                                     Accumulate(Table(k), c, priority, size)
                                     \o SubSeq(@, size + 1, Len(@))]
                       /\ seen' = [seen EXCEPT ![k].weight = Note(@, c, priority)]
                       /\ Set(k, [call[k] EXCEPT !.n = @ + 1])
    /\ UNCHANGED <<maxCap, pool>>

\* The compaction after the scan: bucket = the used entries, written over
\* the front of the same array.
Compact(k) ==
    /\ call[k].pc = "scan"
    /\ call[k].n = Len(ScanOrder(call[k].ms))
    /\ LET arr == call[k].sparseBucket.arr
           dense == Dense(Table(k))
       IN /\ heap' = IF arr = 0 THEN heap
                     ELSE [heap EXCEPT ![arr] =
                             dense \o SubSeq(@, Len(dense) + 1, Len(@))]
          /\ Set(k, [call[k] EXCEPT !.pc = "quantizeSlice",
                        !.bucket = Slice(arr, Len(dense))])
          /\ seen' = [seen EXCEPT ![k].colors = dense]
    /\ UNCHANGED <<maxCap, pool>>

\* quantizeSlice up to the loop of bucketize: numColors, addTransparent and
\* the first queue.  bucketize returns nil for no colour or num = 0; its
\* make([]colorBucket, 1, num*2) panics for num < 0.
QuantizeSlice(k) ==
    /\ call[k].pc = "quantizeSlice"
    /\ LET num == NumColors(call[k].q, call[k].p, call[k].pcap)
           r == [call[k] EXCEPT !.numColors = num,
                    !.addTransparent = AddsTransparent(call[k].q, call[k].p)]
       IN IF Len(Colors(k)) = 0 \/ num = 0
          THEN Set(k, [r EXCEPT !.pc = "palettize", !.buckets = <<>>])
          ELSE IF num < 0
          THEN Set(k, [r EXCEPT !.pc = "panic"])
          ELSE Set(k, [r EXCEPT !.pc = "bucketize",
                          !.buckets = << <<0, Len(Colors(k))>> >>])
    /\ UNCHANGED <<maxCap, pool, heap, seen>>

\* The condition of the loop of bucketize.
Splitting(k) ==
    /\ call[k].pc = "bucketize"
    /\ Len(call[k].buckets) < call[k].numColors
    /\ Len(call[k].buckets) < Len(Colors(k))

\* One iteration of the loop of bucketize.
BucketizeStep(k) ==
    /\ Splitting(k)
    /\ LET it == BucketizeIteration(call[k].buckets, Colors(k))
           arr == call[k].bucket.arr
       IN /\ heap' = [heap EXCEPT ![arr] =
                         it.colors \o SubSeq(@, Len(it.colors) + 1, Len(@))]
          /\ Set(k, [call[k] EXCEPT !.buckets = it.buckets,
                        !.pc = IF it.panic THEN "panic" ELSE "bucketize"])
    /\ UNCHANGED <<maxCap, pool, seen>>

\* bucketize returns; palettize appends one colour per bucket (mean divides
\* by the bucket's weight); quantizeSlice appends the transparent entry.
Palettize(k) ==
    /\ \/ call[k].pc = "palettize"
       \/ call[k].pc = "bucketize" /\ ~Splitting(k)
    /\ LET bs == call[k].buckets
           colors == Colors(k)
       IN IF /\ call[k].q.Aggregation = Mean
             /\ \E i \in 1..Len(bs) : SumWeights(Members(colors, bs[i])) = Zero
          THEN Set(k, [call[k] EXCEPT !.pc = "panic"])
          ELSE Set(k, [call[k] EXCEPT !.pc = "return",
                  !.out = palettize(call[k].p, colors, bs, call[k].q.Aggregation)
                          \o (IF call[k].addTransparent
                              THEN <<Transparent>> ELSE <<>>)])
    /\ UNCHANGED <<maxCap, pool, heap, seen>>

\* The pool once a slice was put.
PoolWith(b) == pool \cup {b}

\* The deferred bpool.Put(bucket) of Quantize and QuantizeMultiple, run when
\* quantizeSlice returns or panics.
Put(k) ==
    /\ call[k].pc \in {"return", "panic"}
    /\ pool' = PoolWith(call[k].bucket)
    /\ Set(k, [call[k] EXCEPT !.pc = IF @ = "return" THEN "done" ELSE "panicked"])
    /\ UNCHANGED <<maxCap, heap, seen>>

Next ==
    \E k \in Calls :
        \/ Build(k)
        \/ GetBucketLock(k)
        \/ GetBucketGet(k)
        \/ ScanPixel(k)
        \/ Compact(k)
        \/ QuantizeSlice(k)
        \/ BucketizeStep(k)
        \/ Palettize(k)
        \/ Put(k)

(***************************************************************************)
(* Inputs.                                                                 *)
(***************************************************************************)
\* Caller palettes: a prefix and its capacity.
Prefixes == {<<>>, <<White>>, <<Clear>>}

Palettes == {<<p, Len(p) + spare>> : p \in Prefixes, spare \in 0..MaxSpare}

Quantizers(weightings) ==
    [Aggregation : {Mode, Mean}, Weighting : weightings, AddTransparent : BOOLEAN]

\* W x H images at the origin.
Rect(w, h, gamut) == Image(0, 0, w, h, gamut)

\* The empty image and the rows of up to MaxWidth pixels.
MainImages == {Rect(w, IF w = 0 THEN 0 ELSE 1, "main") : w \in 0..MaxWidth}

\* Image lists: none, one image, or several one-pixel frames.
MainLists ==
    {<<>>} \cup {<<m>> : m \in MainImages} \cup
    {[i \in 1..n |-> Rect(1, 1, "main")] : n \in 2..MaxImages}

PoolState ==
    /\ maxCap = 0
    /\ pool = {}
    /\ heap = <<>>
    /\ seen = [k \in Calls |-> NothingSeen]

\* One call, of any palette, quantizer and image list.
Init ==
    /\ PoolState
    /\ \E pal \in Palettes, q \in Quantizers({"nil", "zero", "ramp"}),
          ms \in MainLists :
          call = [k \in Calls |->
                    IF k = 1 THEN NewCall(pal[1], pal[2], q, ms) ELSE NoCall]

Spec == Init /\ [][Next]_vars

\* One call on a 2 x 2 image of few colours, with unit or 2^31 weights.
InitSquare ==
    /\ PoolState
    /\ \E pal \in Palettes, q \in Quantizers({"nil", "half"}) :
          call = [k \in Calls |->
                    IF k = 1 THEN NewCall(pal[1], pal[2], q, <<Rect(2, 2, "square")>>)
                    ELSE NoCall]

SpecSquare == InitSquare /\ [][Next]_vars

\* One call on a 3 x 3 image of blues, unit weights.
InitProbe ==
    /\ PoolState
    /\ call = [k \in Calls |->
                  IF k = 1
                  THEN NewCall(<<>>, 2, [Aggregation |-> Mode, Weighting |-> "nil",
                                         AddTransparent |-> FALSE],
                               <<Rect(3, 3, "probe")>>)
                  ELSE NoCall]

SpecProbe == InitProbe /\ [][Next]_vars

\* Concurrent calls on the shared pool, each on no image, one pixel or two.
PoolLists == {<<>>, <<Rect(1, 1, "pair")>>, <<Rect(2, 1, "pair")>>}

InitPool ==
    /\ PoolState
    /\ \E f \in [Calls -> PoolLists] :
          call = [k \in Calls |->
                    NewCall(<<>>, 2, [Aggregation |-> Mode, Weighting |-> "nil",
                                      AddTransparent |-> FALSE], f[k])]

SpecPool == InitPool /\ [][Next]_vars

\* A one-pixel image left of the origin: greatestX and greatestY stay 0, so
\* the bounding box is side x 1 and the table has 2 * side slots.
Far(side) == Image(-side, -1, 1 - side, 0, "plain")

MarkLists == << <<Rect(2, 1, "pair")>>, <<Far(MaxSide - 1)>>, <<Far(MaxSide)>> >>

\* Concurrent calls whose tables differ in size, so that the mark is raised,
\* decays, and is held at the request.  The calls are interchangeable, so
\* their image lists are taken in one order only.
InitMark ==
    /\ PoolState
    /\ \E f \in [Calls -> DOMAIN MarkLists] :
          /\ \A j \in Calls, k \in Calls : j < k => f[j] <= f[k]
          /\ call = [k \in Calls |->
                       NewCall(<<>>, 2, [Aggregation |-> Mode, Weighting |-> "nil",
                                         AddTransparent |-> FALSE], MarkLists[f[k]])]

SpecMark == InitMark /\ [][Next]_vars

(***************************************************************************)
(* Properties.                                                             *)
(***************************************************************************)
Returned(k) == call[k].pc \in {"return", "done"}
Panicked(k) == call[k].pc \in {"panic", "panicked"}

\* buildBucketMultiple has returned: the dense list is known.
Built(k) ==
    call[k].pc \in {"quantizeSlice", "bucketize", "palettize", "panic",
                    "return", "done", "panicked"}

\* quantizeSlice has called bucketize.
Asked(k) ==
    call[k].pc \in {"bucketize", "palettize", "panic", "return", "done", "panicked"}

\* bucketize is in its loop or has returned.
Queued(k) == call[k].pc \in {"bucketize", "palettize", "return", "done"}

\* From getBucket's return to the deferred Put the call holds its table.
InFlight(k) ==
    call[k].pc \in {"scan", "probing", "quantizeSlice", "bucketize", "palettize",
                    "panic", "return"}

Range(f) == {f[i] : i \in DOMAIN f}
CountOf(f, e) == Cardinality({i \in DOMAIN f : f[i] = e})
SameEntries(f, g) ==
    /\ Len(f) = Len(g)
    /\ \A e \in Range(f) \cup Range(g) : CountOf(f, e) = CountOf(g, e)

\* The colours palettize appended to a returned palette.
Synthesized(k) ==
    SubSeq(call[k].out, Len(call[k].p) + 1,
           Len(call[k].out) - (IF call[k].addTransparent THEN 1 ELSE 0))

\* C1: the palette a call returns is no longer than cap(p), whatever the
\* prefix, the images and the configuration.
C1_PaletteWithinCapacity ==
    \A k \in Calls : Returned(k) => Len(call[k].out) <= call[k].pcap

\* C2: with Mode aggregation and a bucket target of at least the number of
\* distinct colours of the aggregated list, the appended colours are those
\* distinct colours, each exactly once.
C2_ModeReproducesColours ==
    \A k \in Calls :
        LET distinct == {e.c : e \in Range(Colors(k))}
        IN (/\ Returned(k)
            /\ call[k].q.Aggregation = Mode
            /\ call[k].numColors >= Cardinality(distinct))
           => /\ Range(Synthesized(k)) = distinct
              /\ Len(Synthesized(k)) = Cardinality(distinct)

\* C3: the probe loop of every scanned pixel of a single image terminates.
C3_ProbeTerminates ==
    \A k \in Calls : Len(call[k].ms) = 1 => call[k].pc # "probing"

\* C4: the dense list buildBucketMultiple returns has exactly one entry for
\* each colour scanned with a non-zero weight, none twice and none of
\* weight 0.
C4_DenseListIsDistinctColours ==
    \A k \in Calls :
        Built(k) =>
            /\ {e.c : e \in Range(seen[k].colors)} = DOMAIN seen[k].weight
            /\ Len(seen[k].colors) = Cardinality(DOMAIN seen[k].weight)
            /\ \A e \in Range(seen[k].colors) : e.p # Zero

\* C5: the weight stored for each aggregated colour is the sum of the weights
\* of its pixels, and the buckets bucketize returns carry, in total, the
\* weight of the aggregated list, which is the weight of all pixels scanned.
RECURSIVE SumAll(_)
SumAll(ws) == IF ws = <<>> THEN Zero ELSE AddN(ws[1], SumAll(Tail(ws)))

RECURSIVE SumOver(_, _)
SumOver(f, S) ==
    IF S = {} THEN Zero
    ELSE LET x == CHOOSE x \in S : TRUE
         IN AddN(f[x], SumOver(f, S \ {x}))

C5_WeightsAreSums ==
    \A k \in Calls :
        /\ Built(k) =>
              /\ \A e \in Range(seen[k].colors) :
                    e.c \in DOMAIN seen[k].weight /\ e.p = seen[k].weight[e.c]
              /\ SumWeights(seen[k].colors)
                    = SumOver(seen[k].weight, DOMAIN seen[k].weight)
        /\ (Queued(k) /\ call[k].buckets # <<>>) =>
              SumAll([i \in 1..Len(call[k].buckets) |->
                        SumWeights(Members(Colors(k), call[k].buckets[i]))])
                 = SumWeights(seen[k].colors)

\* The buckets of the queue are ranges of the n colours, no two of them
\* overlap, and every position lies in exactly one of them.
IsPartition(buckets, n) ==
    /\ \A i \in 1..Len(buckets) :
          0 <= buckets[i][1] /\ buckets[i][1] <= buckets[i][2] /\ buckets[i][2] <= n
    /\ \A j \in 0..(n - 1) :
          Cardinality({i \in 1..Len(buckets) :
                          buckets[i][1] <= j /\ j < buckets[i][2]}) = 1

\* C6 as stated: at every iteration of bucketize and on return the queue
\* partitions the colour array, whose entries are only permuted, and holds
\* at most N buckets.
C6_QueuePartitionsColours ==
    \A k \in Calls :
        Queued(k) =>
            /\ IsPartition(call[k].buckets, Len(Colors(k)))
            /\ SameEntries(Colors(k), seen[k].colors)
            /\ Len(call[k].buckets) <= call[k].numColors

\* C6 amended: the same for a non-empty colour list and a target N >= 1;
\* for an empty list or N = 0 bucketize returns no bucket at all.
C6_QueuePartitionsColoursWhenAsked ==
    \A k \in Calls :
        Queued(k) =>
            IF Len(Colors(k)) >= 1 /\ call[k].numColors >= 1
            THEN /\ IsPartition(call[k].buckets, Len(Colors(k)))
                 /\ SameEntries(Colors(k), seen[k].colors)
                 /\ Len(call[k].buckets) <= call[k].numColors
                 /\ Len(call[k].buckets) >= 1
            ELSE (Len(Colors(k)) = 0 \/ call[k].numColors = 0)
                    => call[k].buckets = <<>>

C6_Witness ==
    \E k \in Calls :
        /\ call[k].pc = "bucketize"
        /\ Len(call[k].buckets) = 3
        /\ Colors(k) # seen[k].colors

\* C7: a table obtained from getBucket shares its backing array with no
\* other call in flight and is not in the pool, until the deferred Put.
C7_BufferOwnedByOneCall ==
    \A k \in Calls :
        (InFlight(k) /\ call[k].sparseBucket.arr # 0) =>
            /\ \A j \in Calls \ {k} :
                  InFlight(j) => call[j].sparseBucket.arr # call[k].sparseBucket.arr
            /\ \A b \in pool : b.arr # call[k].sparseBucket.arr

C7_Witness ==
    \E k \in Calls, j \in Calls :
        /\ j # k
        /\ InFlight(k) /\ call[k].pc = "bucketize"
        /\ call[j].pc = "done"
        /\ call[k].sparseBucket.arr # 0
        /\ call[k].sparseBucket.arr = call[j].bucket.arr

\* C8: getBucket(c) returns a buffer of length c whose slots are all zero,
\* whether newly allocated or taken from the pool with old contents.
C8_GetBucketZeroed ==
    \A k \in Calls :
        (call[k].pc = "scan" /\ call[k].n = 0) =>
            /\ call[k].sparseBucket.len = call[k].size
            /\ Len(Table(k)) = call[k].size
            /\ \A i \in 1..Len(Table(k)) : Table(k)[i] = ZeroPriority

C8_Witness ==
    \E k \in Calls, j \in Calls :
        /\ j # k
        /\ call[k].pc = "scan" /\ call[k].n = 0 /\ call[k].size >= 1
        /\ call[j].pc = "done" /\ call[j].bucket.len >= 1
        /\ call[k].sparseBucket.arr = call[j].bucket.arr

\* C9: with AddTransparent set and no alpha-0 entry in the prefix,
\* quantizeSlice asks bucketize for cap(p) - len(p) - 1 buckets and ends
\* the palette with one transparent entry after the synthesized colours;
\* otherwise it asks for cap(p) - len(p) buckets and appends no such entry.
C9_TransparentPolicy ==
    \A k \in Calls :
        LET reserve == /\ call[k].q.AddTransparent
                       /\ \A i \in 1..Len(call[k].p) : call[k].p[i].A # 0
            spare == call[k].pcap - Len(call[k].p)
        IN /\ Asked(k) =>
                call[k].numColors = (IF reserve THEN spare - 1 ELSE spare)
           /\ Returned(k) =>
                IF reserve
                THEN /\ Len(call[k].out)
                          = Len(call[k].p) + Len(call[k].buckets) + 1
                     /\ call[k].out[Len(call[k].out)] = Transparent
                ELSE Len(call[k].out) = Len(call[k].p) + Len(call[k].buckets)

C9_Witness ==
    \E k \in Calls :
        /\ Returned(k)
        /\ call[k].q.AddTransparent
        /\ call[k].p = <<White>>
        /\ Len(call[k].buckets) = 2
        /\ call[k].out[Len(call[k].out)] = Transparent

\* C10: with an empty aggregated list or no spare capacity a call does not
\* panic, and it returns the prefix with no synthesized colour.
C10_DegenerateInputsNeverFail ==
    \A k \in Calls :
        (Built(k) /\ (Len(seen[k].colors) = 0 \/ call[k].pcap = Len(call[k].p))) =>
            /\ ~Panicked(k)
            /\ Returned(k) =>
                  /\ SubSeq(call[k].out, 1, Len(call[k].p)) = call[k].p
                  /\ Synthesized(k) = <<>>

\* C11: bucketize works oldest-first.  Every completed iteration takes the
\* bucket at the head of the queue and puts at the tail that bucket itself
\* if it has fewer than 2 members, else its lower part followed by its upper
\* part; the returned palette has one colour per bucket of the final queue,
\* in queue order.
C11_OldestFirst ==
    [][\A k \in Calls :
        /\ (call[k].pc = "bucketize" /\ call'[k].pc = "bucketize") =>
              LET queue == call[k].buckets
                  head == queue[1]
              IN \/ call'[k].buckets = queue
                 \/ /\ head[2] - head[1] < 2
                    /\ call'[k].buckets = Tail(queue) \o <<head>>
                 \/ /\ head[2] - head[1] >= 2
                    /\ \E mid \in head[1]..head[2] :
                          call'[k].buckets =
                             Tail(queue) \o << <<head[1], mid>>, <<mid, head[2]>> >>
        /\ (call[k].pc = "bucketize" /\ call'[k].pc = "return") =>
              /\ call'[k].buckets = call[k].buckets
              /\ Len(call'[k].out) =
                    Len(call[k].p) + Len(call[k].buckets)
                       + (IF call[k].addTransparent THEN 1 ELSE 0)
              /\ \A i \in 1..Len(call[k].buckets) :
                    call'[k].out[Len(call[k].p) + i] =
                       Representative(Members(Colors(k), call[k].buckets[i]),
                                      call[k].q.Aggregation)
    ]_vars

\* A call returned three colours from a queue whose oldest bucket is not the
\* first range of the array: singletons were taken and put back in turn.
C11_Witness ==
    \E k \in Calls :
        /\ call[k].pc = "return"
        /\ Len(call[k].buckets) = 3
        /\ call[k].buckets[1][1] # 0
        /\ Len(Synthesized(k)) = 3

\* floor(m * 99 / 100), and the larger of two marks.
Decayed(m) == (m * 99) \div 100
Larger(a, b) == IF a >= b THEN a ELSE b

\* C12: the mutex section of getBucket(c) on a pool of mark m leaves the
\* mark c if c > m, the larger of floor(m*99/100) and c if c < m, and m if
\* c = m; the mark the call keeps for its allocation is that value, and it
\* is at least c.
C12_MarkUpdate ==
    [][\A k \in Calls :
        (call[k].pc = "lock" /\ call'[k].pc = "get") =>
            LET m == maxCap
                c == call[k].size
            IN /\ c > m => maxCap' = c
               /\ c < m => maxCap' = Larger(Decayed(m), c)
               /\ c = m => maxCap' = m
               /\ call'[k].maxCap = maxCap'
               /\ call'[k].maxCap >= c
    ]_vars

\* A call asked for less than the mark another call had left, 1% below which
\* is less than the request: the mark is the request.
C12_Witness ==
    \E k \in Calls, j \in Calls :
        /\ call[k].pc = "get"
        /\ call[j].pc \notin {"build", "lock", "off"}
        /\ call[j].maxCap > call[k].size
        /\ Decayed(call[j].maxCap) < call[k].size
        /\ maxCap = call[k].size
        /\ call[k].maxCap = call[k].size

\* The members of the i-th bucket of a call about to return.
BucketOf(k, i) == Members(Colors(k), call[k].buckets[i])

\* The positions of the members of cb whose weight no member exceeds.
Heaviest(cb) ==
    {j \in 1..Len(cb) : \A l \in 1..Len(cb) : ~LessN(cb[j].p, cb[l].p)}

\* C13: with Mode, the colour appended for a non-empty bucket is that of a
\* member of the greatest weight in the bucket, and of the first such member
\* in the bucket's order when several share that weight.
C13_ModePicksFirstHeaviest ==
    \A k \in Calls :
        (call[k].pc = "return" /\ call[k].q.Aggregation = Mode) =>
            \A i \in 1..Len(call[k].buckets) :
                BucketOf(k, i) # <<>> =>
                    /\ Heaviest(BucketOf(k, i)) # {}
                    /\ call[k].out[Len(call[k].p) + i] =
                          BucketOf(k, i)[SetMin(Heaviest(BucketOf(k, i)))].c

\* A returned bucket in which the heaviest member is not the first, and one
\* in which two members share the greatest weight.
C13_LaterIsHeaviest ==
    \E k \in Calls :
        /\ call[k].pc = "return" /\ call[k].q.Aggregation = Mode
        /\ \E i \in 1..Len(call[k].buckets) :
              Heaviest(BucketOf(k, i)) # {} /\ 1 \notin Heaviest(BucketOf(k, i))

C13_Witness ==
    \E k \in Calls :
        /\ call[k].pc = "return" /\ call[k].q.Aggregation = Mode
        /\ \E i \in 1..Len(call[k].buckets) :
              /\ Cardinality(Heaviest(BucketOf(k, i))) >= 2
              /\ call[k].out[Len(call[k].p) + i] = BucketOf(k, i)[1].c
              /\ BucketOf(k, i)[2].c # BucketOf(k, i)[1].c

\* A weight below 2^31 as a number, and the sums of mean() as numbers.
Weight(e) == e.p[1] * Limb + e.p[2]

RECURSIVE TotalWeight(_)
TotalWeight(cb) == IF cb = <<>> THEN 0 ELSE Weight(cb[1]) + TotalWeight(Tail(cb))

RECURSIVE WeightedSum(_, _)
WeightedSum(cb, ch) ==
    IF cb = <<>> THEN 0 ELSE cb[1].c[ch] * Weight(cb[1]) + WeightedSum(Tail(cb), ch)

\* v is the truncated weighted mean of channel ch over cb, and lies between
\* the least and the greatest value of that channel in cb.
IsMeanOf(v, cb, ch) ==
    /\ v = WeightedSum(cb, ch) \div TotalWeight(cb)
    /\ \E i \in 1..Len(cb) : cb[i].c[ch] <= v
    /\ \E i \in 1..Len(cb) : cb[i].c[ch] >= v

\* C14 as stated: with Mean, every channel of the colour appended for a
\* bucket is the truncated weighted mean of that channel over the members.
C14_MeanOfEveryChannel ==
    \A k \in Calls :
        (call[k].pc = "return" /\ call[k].q.Aggregation = Mean) =>
            \A i \in 1..Len(call[k].buckets) :
                \A ch \in {"R", "G", "B", "A"} :
                    IsMeanOf(call[k].out[Len(call[k].p) + i][ch], BucketOf(k, i), ch)

\* C14 amended: with Mean, the R, G and B of the colour appended for a
\* bucket are each the truncated weighted mean of that channel over the
\* members, between the channel's least and greatest value among them; the
\* alpha of the colour is 255 whatever the members' alpha.
C14_MeanOfColourChannels ==
    \A k \in Calls :
        (call[k].pc = "return" /\ call[k].q.Aggregation = Mean) =>
            \A i \in 1..Len(call[k].buckets) :
                /\ \A ch \in {"R", "G", "B"} :
                      IsMeanOf(call[k].out[Len(call[k].p) + i][ch], BucketOf(k, i), ch)
                /\ call[k].out[Len(call[k].p) + i].A = 255

\* A returned Mean colour whose red is a truncated quotient, for a bucket
\* that holds a member that is not opaque.
C14_Witness ==
    \E k \in Calls :
        /\ call[k].pc = "return" /\ call[k].q.Aggregation = Mean
        /\ \E i \in 1..Len(call[k].buckets) :
              /\ Len(BucketOf(k, i)) >= 2
              /\ call[k].out[Len(call[k].p) + i].R * TotalWeight(BucketOf(k, i))
                    < WeightedSum(BucketOf(k, i), "R")
              /\ \E j \in 1..Len(BucketOf(k, i)) : BucketOf(k, i)[j].c.A # 255

\* An iteration of bucketize by call k that partitioned the bucket at the
\* head of the queue (3 members or more) and put the two parts at the tail.
Partitioned(k) ==
    /\ call[k].pc = "bucketize" /\ call'[k].pc = "bucketize"
    /\ call[k].buckets[1][2] - call[k].buckets[1][1] >= 3
    /\ Len(call'[k].buckets) = Len(call[k].buckets) + 1

\* The bucket that iteration split, and the parts it returned.
SplitBucket(k) == Members(Colors(k), call[k].buckets[1])
LowerPart(k) == Members(Colors(k)', call'[k].buckets[Len(call'[k].buckets) - 1])
UpperPart(k) == Members(Colors(k)', call'[k].buckets[Len(call'[k].buckets)])

\* C15: partition() of a bucket of 3 members or more, on the channel and
\* with the threshold t that span() selects, returns a lower part whose
\* members are all below t on that channel and an upper part whose members
\* are all at least t.
C15_PartsSeparatedByThreshold ==
    [][\A k \in Calls :
        Partitioned(k) =>
            LET t == span(SplitBucket(k)).mean
                axis == span(SplitBucket(k)).axis
            IN /\ \A i \in 1..Len(LowerPart(k)) : Channel(LowerPart(k)[i].c, axis) < t
               /\ \A i \in 1..Len(UpperPart(k)) : Channel(UpperPart(k)[i].c, axis) >= t
    ]_vars

\* C16: every bucket in the queue of bucketize has at least one member, and
\* partition() never indexes outside its bucket: the only panic of a call
\* is that of make() in bucketize for a negative count, before the loop.
C16_BucketsNonEmpty ==
    \A k \in Calls :
        /\ Queued(k) =>
              \A i \in 1..Len(call[k].buckets) :
                  call[k].buckets[i][2] - call[k].buckets[i][1] >= 1
        /\ Panicked(k) => call[k].numColors < 0

\* min(N, D)
Smaller(a, b) == IF a <= b THEN a ELSE b

\* A call that returns holds min(N, D) buckets when D >= 1 and N >= 1.
ReturnsMinBuckets(k) ==
    (Returned(k) /\ Len(seen[k].colors) >= 1 /\ call[k].numColors >= 1) =>
        Len(call[k].buckets) = Smaller(call[k].numColors, Len(seen[k].colors))

\* C17: for a colour list of D >= 1 entries and a target N >= 1, bucketize
\* comes to its return, with exactly min(N, D) buckets: no call that asked
\* for N >= 1 buckets of D >= 1 colours ends anywhere else.
C17_BucketizeReturnsMinBuckets ==
    \A k \in Calls :
        /\ ReturnsMinBuckets(k)
        /\ (Asked(k) /\ Len(seen[k].colors) >= 1 /\ call[k].numColors >= 1) =>
              ~Panicked(k)

\* The count alone, for the calls that return.
C17_CountOnReturn == \A k \in Calls : ReturnsMinBuckets(k)

\* C18: while a call scans its images (one or more, with a pixel to scan),
\* its table has more slots than there are distinct colours scanned so far
\* with a non-zero weight, and at least one slot of the table is empty.
C18_TableExceedsColours ==
    \A k \in Calls :
        (call[k].pc \in {"scan", "probing"} /\ Len(ScanOrder(call[k].ms)) >= 1) =>
            /\ call[k].size > Cardinality(DOMAIN seen[k].weight)
            /\ \E i \in 1..Len(Table(k)) : Table(k)[i].p = Zero

\* The weight of the members of cb whose channel value is at most v, and the
\* least value at which that weight is half of the bucket's weight or more.
WeightUpTo(cb, axis, v) ==
    TotalWeight(SelectSeq(cb, LAMBDA e : Channel(e.c, axis) <= v))

MedianValue(cb, axis) ==
    SetMin({v \in 0..255 : 2 * WeightUpTo(cb, axis, v) >= TotalWeight(cb)})

\* C19: partition() of a bucket of 3 members or more splits it where, taking
\* the members in increasing order of the selected channel, the cumulative
\* weight first reaches or exceeds half of the bucket's weight: the members
\* up to there are the lower part, the others the upper part.
C19_SplitAtWeightedMedian ==
    [][\A k \in Calls :
        Partitioned(k) =>
            LET cb == SplitBucket(k)
                axis == span(cb).axis
                cut == MedianValue(cb, axis)
            IN /\ Range(LowerPart(k)) =
                     {cb[i] : i \in {j \in 1..Len(cb) : Channel(cb[j].c, axis) <= cut}}
               /\ Range(UpperPart(k)) =
                     {cb[i] : i \in {j \in 1..Len(cb) : Channel(cb[j].c, axis) > cut}}
    ]_vars

\* The call is about to partition the bucket at the head of its queue.
AboutToSplit(k) ==
    Splitting(k) /\ call[k].buckets[1][2] - call[k].buckets[1][1] >= 3

\* Greatest minus least value of a channel over the members of cb.
ChannelRange(cb, axis) ==
    LET vs == {Channel(cb[i].c, axis) : i \in 1..Len(cb)}
    IN SetMax(vs) - SetMin(vs)

Axes == <<red, green, blue>>

\* The positions in Axes of the channels of the greatest range.
Widest(cb) ==
    {a \in 1..3 : \A b \in 1..3 : ChannelRange(cb, Axes[a]) >= ChannelRange(cb, Axes[b])}

\* C20 as stated: the channel span() selects for a bucket is one of the
\* greatest range, and the first of them in the order R, G, B.
C20_WidestChannelRedFirst ==
    \A k \in Calls :
        AboutToSplit(k) =>
            span(SplitBucket(k)).axis = Axes[SetMin(Widest(SplitBucket(k)))]

\* C20 amended: the channel span() selects is one of the greatest range,
\* and the last of them in the order R, G, B (B over G over R).
C20_WidestChannelBlueFirst ==
    \A k \in Calls :
        AboutToSplit(k) =>
            span(SplitBucket(k)).axis = Axes[SetMax(Widest(SplitBucket(k)))]

\* A bucket about to be split whose red and green ranges are equal and
\* greater than its blue range: green is selected.
C20_Witness ==
    \E k \in Calls :
        /\ AboutToSplit(k)
        /\ Widest(SplitBucket(k)) = {1, 2}
        /\ span(SplitBucket(k)).axis = green

====
